---- MODULE Spec2Model ----
(***************************************************************************)
(* A model of the yc3b workload configuration (src/src/lib.rs): the        *)
(* Workload value, its Default, the derive_builder builder, the six        *)
(* preset factories a..f, and the serde/TOML serialization and parsing.    *)
(*                                                                         *)
(* Representation of the Rust values:                                      *)
(*   u64      [msb, low]: the value msb * 2^63 + low (low < 2^63); a value *)
(*            fits TOML's signed 64-bit integer exactly when msb is FALSE. *)
(*   f64      [nan, c]: NaN, or the decimal c / 100.  Every float of the   *)
(*            source (0.95, 0.05, 0.5, 0.2, 0.8, 0.0, 1.0) is a whole      *)
(*            number of hundredths, and the IEEE-754 sums 0.95 + 0.05,     *)
(*            0.5 + 0.5 and 0.05 + 0.95 are exactly 1.0.                   *)
(*   Duration [secs, nanos] as std::time::Duration keeps it.               *)
(*   enums    the Rust variant name ("Uniform"); the wire name is the      *)
(*            lowercase one ("uniform").                                   *)
(* A TOML document is a sequence of items: key/value lines [k, v], table   *)
(* headers [h] and lines that are not TOML at all [bad].                   *)
(***************************************************************************)
EXTENDS Integers, Sequences, FiniteSets, TLC

VARIABLES pc, op, args, doc, w, outcome, err, text, w2

vars == <<pc, op, args, doc, w, outcome, err, text, w2>>

-----------------------------------------------------------------------------
(* Bounds of the model *)

\* the longest hand-written document handed to from_toml_str
MaxDocItems == 2
\* the most fields one builder chain overrides
MaxOverrides == 2

-----------------------------------------------------------------------------
(* Primitive values *)

U64(n) == [msb |-> FALSE, low |-> n]
\* 2^63 + n: a u64 above i64::MAX
U64High(n) == [msb |-> TRUE, low |-> n]

F64(hundredths) == [nan |-> FALSE, c |-> hundredths]
NaN == [nan |-> TRUE, c |-> 0]
\* f64's PartialEq: IEEE equality, NaN equal to nothing
F64Eq(x, y) == ~x.nan /\ ~y.nan /\ x.c = y.c

\* std::time::Duration, as the source builds and serde_with reads it
from_secs(s) == [secs |-> s, nanos |-> 0]
from_millis(ms) == [secs |-> ms \div 1000, nanos |-> (ms % 1000) * 1000000]
subsec_millis(d) == d.nanos \div 1000000
\* Duration * 1000, as DurationMilliSeconds scales before it rounds
DurationTimes1000(d) ==
    [secs |-> d.secs * 1000 + d.nanos \div 1000000,
     nanos |-> (d.nanos % 1000000) * 1000]

-----------------------------------------------------------------------------
(* The enums and their serde names (rename_all = "lowercase") *)

Distribution == {"Constant", "Uniform", "Zipfian", "Latest"}
InsertOrder == {"Hashed", "Ordered"}
MeasurementType == {"Histogram", "Timeseries", "Raw"}

Lowercase(v) ==
    CASE v = "Constant" -> "constant"
      [] v = "Uniform" -> "uniform"
      [] v = "Zipfian" -> "zipfian"
      [] v = "Latest" -> "latest"
      [] v = "Hashed" -> "hashed"
      [] v = "Ordered" -> "ordered"
      [] v = "Histogram" -> "histogram"
      [] v = "Timeseries" -> "timeseries"
      [] v = "Raw" -> "raw"

Variants(ty) ==
    CASE ty = "Distribution" -> Distribution
      [] ty = "InsertOrder" -> InsertOrder
      [] ty = "MeasurementType" -> MeasurementType

IsEnum(ty) == ty \in {"Distribution", "InsertOrder", "MeasurementType"}

-----------------------------------------------------------------------------
(* The Workload struct: its fields in declaration order, with the serde    *)
(* key and the type of each                                                *)

Fld(n, k, t) == [name |-> n, key |-> k, ty |-> t]

WorkloadFields == <<
    Fld("workload", "workload", "String"),
    Fld("record_count", "recordcount", "u64"),
    Fld("operation_count", "operationcount", "u64"),
    Fld("thread_count", "threadcount", "u64"),
    Fld("insert_count", "insertcount", "u64"),
    Fld("insert_start", "insertstart", "u64"),
    Fld("field_count", "fieldcount", "u64"),
    Fld("field_length", "fieldlength", "u64"),
    Fld("read_all_fields", "readallfields", "bool"),
    Fld("write_all_fields", "writeallfields", "bool"),
    Fld("field_length_distribution", "fieldlengthdistribution", "Distribution"),
    Fld("read_proportion", "readproportion", "f64"),
    Fld("update_proportion", "updateproportion", "f64"),
    Fld("insert_proportion", "insertproportion", "f64"),
    Fld("read_modify_write_proportion", "readmodifywriteproportion", "f64"),
    Fld("scan_proportion", "scanproportion", "f64"),
    Fld("max_scan_length", "maxscanlength", "u64"),
    Fld("scan_length_distribution", "scanlengthdistribution", "Distribution"),
    Fld("insert_order", "insertorder", "InsertOrder"),
    Fld("request_distribution", "requestdistribution", "Distribution"),
    Fld("hotspot_data_fraction", "readcount", "f64"),
    Fld("hotspot_operation_fraction", "hotspotopnfraction", "f64"),
    Fld("max_execution_time", "maxexecutiontime", "DurationSeconds"),
    Fld("table", "table", "String"),
    Fld("column_family", "columnfamily", "String"),
    Fld("measurement_type", "measurementtype", "MeasurementType"),
    Fld("histogram", "histogram", "HistogramConfig"),
    Fld("timeseries", "timeseries", "TimeseriesConfig") >>

FieldIdx == 1..Len(WorkloadFields)
FieldNames == {WorkloadFields[i].name : i \in FieldIdx}
\* the place of a field in the declaration, by its name
IdxOf == [n \in FieldNames |-> CHOOSE i \in FieldIdx : WorkloadFields[i].name = n]
IsSection(ty) == ty \in {"HistogramConfig", "TimeseriesConfig"}
\* the one field of each sub-configuration struct
HistogramConfigField == "buckets"
TimeseriesConfigField == "granularity"
SectionField(ty) ==
    IF ty = "HistogramConfig" THEN HistogramConfigField ELSE TimeseriesConfigField

\* impl Default for Workload
WorkloadDefault == [
    workload |-> "core",
    record_count |-> U64(1000000),
    operation_count |-> U64(3000000),
    thread_count |-> U64(500),
    insert_count |-> U64(0),
    insert_start |-> U64(0),
    field_count |-> U64(10),
    field_length |-> U64(100),
    read_all_fields |-> TRUE,
    write_all_fields |-> FALSE,
    field_length_distribution |-> "Constant",
    read_proportion |-> F64(95),
    update_proportion |-> F64(5),
    insert_proportion |-> F64(0),
    read_modify_write_proportion |-> F64(0),
    scan_proportion |-> F64(0),
    max_scan_length |-> U64(1000),
    scan_length_distribution |-> "Uniform",
    insert_order |-> "Hashed",
    request_distribution |-> "Zipfian",
    hotspot_data_fraction |-> F64(20),
    hotspot_operation_fraction |-> F64(80),
    max_execution_time |-> from_secs(0),
    table |-> "usertable",
    column_family |-> "",
    measurement_type |-> "Histogram",
    histogram |-> [buckets |-> from_millis(1000)],
    timeseries |-> [granularity |-> from_millis(1000)] ]

\* derive(PartialEq) on Workload: field by field, floats by IEEE equality
ValueEq(ty, x, y) == IF ty = "f64" THEN F64Eq(x, y) ELSE x = y
WorkloadEq(x, y) ==
    \A i \in FieldIdx :
        ValueEq(WorkloadFields[i].ty, x[WorkloadFields[i].name], y[WorkloadFields[i].name])

-----------------------------------------------------------------------------
(* TOML values and document items *)

TInt(i) == [t |-> "integer", i |-> i]
\* an integer literal above i64::MAX: not a TOML integer
TIntTooBig(u) == [t |-> "integer_out_of_range", u |-> u]
TFloat(x) == [t |-> "float", x |-> x]
TBool(bv) == [t |-> "boolean", b |-> bv]
TStr(s) == [t |-> "string", s |-> s]

KV(k, v) == [k |-> k, v |-> v]
Header(h) == [h |-> h]
NotToml == [bad |-> TRUE]

IsKV(it) == "k" \in DOMAIN it
IsHeader(it) == "h" \in DOMAIN it

-----------------------------------------------------------------------------
(* Serialization: derive(Serialize) on Workload through toml::to_string *)

\* (a bug: the duration written in milliseconds under a key read as seconds)
SerDurationSeconds_Millis(d) == d.secs * 1000 + subsec_millis(d)
\* serde_with DurationSeconds<u64>: whole seconds, rounded to the nearest
SerDurationSeconds(d) == d.secs + (IF subsec_millis(d) >= 500 THEN 1 ELSE 0)
\* (a bug: DurationSeconds where DurationMilliSeconds was meant)
SerDurationMilliSeconds_Secs(d) == d.secs + (IF subsec_millis(d) >= 500 THEN 1 ELSE 0)
\* serde_with DurationMilliSeconds: whole milliseconds, rounded to the nearest
SerDurationMilliSeconds(d) == SerDurationSeconds(DurationTimes1000(d))

\* toml's integer is an i64: a u64 above i64::MAX has no TOML integer
SerU64(u) == IF u.msb THEN TIntTooBig(u) ELSE TInt(u.low)

SerValue(ty, x) ==
    CASE ty = "String" -> TStr(x)
      [] ty = "u64" -> SerU64(x)
      [] ty = "bool" -> TBool(x)
      [] ty = "f64" -> TFloat(x)
      [] IsEnum(ty) -> TStr(Lowercase(x))
      [] ty = "DurationSeconds" -> TInt(SerDurationSeconds(x))
      [] ty = "HistogramConfig" -> TInt(SerDurationMilliSeconds(x.buckets))
      [] ty = "TimeseriesConfig" -> TInt(SerDurationMilliSeconds(x.granularity))

\* one field's line, under its serde key
SerLine(x, fd) ==
    KV(IF IsSection(fd.ty) THEN SectionField(fd.ty) ELSE fd.key, SerValue(fd.ty, x[fd.name]))

\* the fields in declaration order; a sub-configuration is written as a
\* table: its header, then its one line
SerFields(x) ==
    LET lines == [n \in FieldIdx |->
                    IF IsSection(WorkloadFields[n].ty)
                    THEN <<Header(WorkloadFields[n].key), SerLine(x, WorkloadFields[n])>>
                    ELSE <<SerLine(x, WorkloadFields[n])>>]
        Cat[n \in 0..Len(WorkloadFields)] == IF n = 0 THEN <<>> ELSE Cat[n - 1] \o lines[n]
    IN Cat[Len(WorkloadFields)]

\* toml::to_string(&workload): the results it can give.  For a u64 above
\* i64::MAX the toml release in use decides: the serializer refuses the
\* value (an error), or writes digits that no TOML parser reads back.
to_string(x) ==
    LET items == SerFields(x)
        tooBig == \E i \in 1..Len(items) :
                      IsKV(items[i]) /\ items[i].v.t = "integer_out_of_range"
    IN IF tooBig
       THEN {[ok |-> FALSE, items |-> <<>>], [ok |-> TRUE, items |-> items]}
       ELSE {[ok |-> TRUE, items |-> items]}

-----------------------------------------------------------------------------
(* Parsing: toml::from_str into derive(Deserialize) with serde(default) *)

Sections == {"histogram", "timeseries"}
EmptyTable == <<>>
\* the table with key k set to v
Put(tbl, k, v) == (k :> v) @@ tbl

\* The TOML parser proper: the root table and the tables of the headers,
\* or a syntax error (a line that is not TOML, an integer out of range, a
\* key or a table defined twice).
RECURSIVE TomlTables(_, _, _)
TomlTables(items, cur, acc) ==
    IF items = <<>> \/ ~acc.ok THEN acc
    ELSE LET it == Head(items)
             bad == [acc EXCEPT !.ok = FALSE]
         IN IF ~IsKV(it) /\ ~IsHeader(it) THEN bad
            ELSE IF IsHeader(it)
            THEN IF it.h \in DOMAIN acc.tables \/ it.h \in DOMAIN acc.root
                 THEN bad
                 ELSE TomlTables(Tail(items), it.h,
                         [acc EXCEPT !.tables = Put(acc.tables, it.h, EmptyTable)])
            ELSE IF it.v.t = "integer_out_of_range" THEN bad
            ELSE IF cur = ""
            THEN IF it.k \in DOMAIN acc.root \/ it.k \in DOMAIN acc.tables
                 THEN bad
                 ELSE TomlTables(Tail(items), cur,
                         [acc EXCEPT !.root = Put(acc.root, it.k, it.v)])
            ELSE IF it.k \in DOMAIN acc.tables[cur]
                 THEN bad
                 ELSE TomlTables(Tail(items), cur,
                         [acc EXCEPT !.tables[cur] = Put(acc.tables[cur], it.k, it.v)])

TomlParse(items) ==
    TomlTables(items, "", [ok |-> TRUE, root |-> EmptyTable,
                           tables |-> EmptyTable])

Good(x) == [ok |-> TRUE, val |-> x, err |-> "none"]
Bad(e) == [ok |-> FALSE, val |-> FALSE, err |-> e]

\* (a bug: an unknown name falls back to a variant, as serde(other) would)
DeEnum_Fallback(ty, v) ==
    IF v.t # "string" THEN Bad("FieldTypeError")
    ELSE IF \E x \in Variants(ty) : Lowercase(x) = v.s
         THEN Good(CHOOSE x \in Variants(ty) : Lowercase(x) = v.s)
         ELSE Good(CHOOSE x \in Variants(ty) : TRUE)

\* serde(rename_all = "lowercase") enums: the variant of that name, or
\* serde's unknown-variant error; there is no fallback variant
DeEnum(ty, v) ==
    IF v.t # "string" THEN Bad("FieldTypeError")
    ELSE IF \E x \in Variants(ty) : Lowercase(x) = v.s
         THEN Good(CHOOSE x \in Variants(ty) : Lowercase(x) = v.s)
         ELSE Bad("UnknownVariantError")

\* (a bug: the integer read as milliseconds)
DeDurationSeconds_Millis(v) ==
    IF v.t = "integer" /\ v.i >= 0 THEN Good(from_millis(v.i)) ELSE Bad("FieldTypeError")
\* serde_with DurationSeconds<u64, Strict>: an unsigned integer of seconds
DeDurationSeconds(v) ==
    IF v.t = "integer" /\ v.i >= 0 THEN Good(from_secs(v.i)) ELSE Bad("FieldTypeError")
\* serde_with DurationMilliSeconds<u64, Strict>: an unsigned integer of milliseconds
DeDurationMilliSeconds(v) ==
    IF v.t = "integer" /\ v.i >= 0 THEN Good(from_millis(v.i)) ELSE Bad("FieldTypeError")

\* a value of a field's type from a TOML value
DeValue(ty, v) ==
    CASE ty = "String" -> IF v.t = "string" THEN Good(v.s) ELSE Bad("FieldTypeError")
      [] ty = "u64" ->
            IF v.t = "integer" /\ v.i >= 0 THEN Good(U64(v.i)) ELSE Bad("FieldTypeError")
      [] ty = "bool" -> IF v.t = "boolean" THEN Good(v.b) ELSE Bad("FieldTypeError")
      [] ty = "f64" ->
            IF v.t = "float" THEN Good(v.x)
            ELSE IF v.t = "integer" THEN Good(F64(v.i * 100))
            ELSE Bad("FieldTypeError")
      [] IsEnum(ty) -> DeEnum(ty, v)
      [] ty = "DurationSeconds" -> DeDurationSeconds(v)
      \* a sub-configuration is a table, never a scalar
      [] IsSection(ty) -> Bad("FieldTypeError")

\* derive(Deserialize) on HistogramConfig / TimeseriesConfig: no
\* serde(default), so the one field is required; other keys are ignored
DeSection(ty, tbl) ==
    IF SectionField(ty) \notin DOMAIN tbl THEN Bad("MissingFieldError")
    ELSE LET r == DeDurationMilliSeconds(tbl[SectionField(ty)])
         IN IF ~r.ok THEN r
            ELSE IF ty = "HistogramConfig" THEN Good([buckets |-> r.val])
            ELSE Good([granularity |-> r.val])

\* (a bug: no serde(default) on Workload, every key required)
DeField_Required(fd, t) ==
    IF fd.key \in DOMAIN t.root THEN DeValue(fd.ty, t.root[fd.key])
    ELSE IF IsSection(fd.ty) /\ fd.key \in DOMAIN t.tables
    THEN DeSection(fd.ty, t.tables[fd.key])
    ELSE Bad("MissingFieldError")

\* one field of Workload out of the parsed tables: the document's value
\* when its key is there, and Default's (serde(default)) when it is not
DeField(fd, t) ==
    IF fd.key \in DOMAIN t.root THEN DeValue(fd.ty, t.root[fd.key])
    ELSE IF IsSection(fd.ty) /\ fd.key \in DOMAIN t.tables
    THEN DeSection(fd.ty, t.tables[fd.key])
    ELSE Good(WorkloadDefault[fd.name])

\* (a bug: serde(deny_unknown_fields) on Workload)
from_str_DenyUnknown(items) ==
    LET t == TomlParse(items)
    IN IF ~t.ok THEN Bad("DocumentSyntaxError")
       ELSE IF \E k \in DOMAIN t.root : \A i \in FieldIdx : WorkloadFields[i].key # k
       THEN Bad("UnknownFieldError")
       ELSE LET r == [i \in FieldIdx |-> DeField(WorkloadFields[i], t)]
                failed == {i \in FieldIdx : ~r[i].ok}
            IN IF failed # {}
               THEN r[CHOOSE i \in failed : \A j \in failed : i <= j]
               ELSE Good([n \in FieldNames |-> r[IdxOf[n]].val])

\* toml::from_str::<Workload>: keys that name no field are skipped; of
\* several fields that fail, the error is that of the first declared
from_str(items) ==
    LET t == TomlParse(items)
    IN IF ~t.ok THEN Bad("DocumentSyntaxError")
       ELSE LET r == [i \in FieldIdx |-> DeField(WorkloadFields[i], t)]
                failed == {i \in FieldIdx : ~r[i].ok}
            IN IF failed # {}
               THEN r[CHOOSE i \in failed : \A j \in failed : i <= j]
               ELSE Good([n \in FieldNames |-> r[IdxOf[n]].val])

\* Workload::from_toml_str: toml::from_str(toml).unwrap()
from_toml_str(items) ==
    LET r == from_str(items)
    IN IF r.ok THEN [outcome |-> "value", val |-> r.val, err |-> "none"]
       ELSE [outcome |-> "panic", val |-> WorkloadDefault, err |-> r.err]

-----------------------------------------------------------------------------
(* The builder (derive(Builder), pattern = "owned", default) and presets *)

\* WorkloadBuilder::default(): no field set
WorkloadBuilderDefault == EmptyTable
\* a setter: the field becomes Some(value)
Setter(bld, name, x) == Put(bld, name, x)
RECURSIVE Setters(_, _)
Setters(bld, calls) ==
    IF calls = <<>> THEN bld
    ELSE Setters(Setter(bld, Head(calls)[1], Head(calls)[2]), Tail(calls))
\* build(): a field that was not set is taken from Workload::default();
\* with the struct-level default no field is required, so build never fails
build(bld) ==
    [n \in FieldNames |-> IF n \in DOMAIN bld THEN bld[n] ELSE WorkloadDefault[n]]

a(record_count, operation_count) ==
    build(Setters(WorkloadBuilderDefault, <<
        <<"record_count", record_count>>,
        <<"operation_count", operation_count>>,
        <<"read_all_fields", TRUE>>,
        <<"insert_proportion", F64(0)>>,
        <<"read_proportion", F64(50)>>,
        <<"scan_proportion", F64(0)>>,
        <<"update_proportion", F64(50)>>,
        <<"request_distribution", "Uniform">> >>))

b(record_count, operation_count) ==
    build(Setters(WorkloadBuilderDefault, <<
        <<"record_count", record_count>>,
        <<"operation_count", operation_count>>,
        <<"read_all_fields", TRUE>>,
        <<"insert_proportion", F64(0)>>,
        <<"read_proportion", F64(95)>>,
        <<"scan_proportion", F64(0)>>,
        <<"update_proportion", F64(5)>>,
        <<"request_distribution", "Uniform">> >>))

c(record_count, operation_count) ==
    build(Setters(WorkloadBuilderDefault, <<
        <<"record_count", record_count>>,
        <<"operation_count", operation_count>>,
        <<"read_all_fields", TRUE>>,
        <<"insert_proportion", F64(0)>>,
        <<"read_proportion", F64(100)>>,
        <<"scan_proportion", F64(0)>>,
        <<"update_proportion", F64(0)>>,
        <<"request_distribution", "Uniform">> >>))

\* (a bug: preset D left on the Uniform distribution of its neighbours)
d_Uniform(record_count, operation_count) ==
    build(Setters(WorkloadBuilderDefault, <<
        <<"record_count", record_count>>,
        <<"operation_count", operation_count>>,
        <<"read_all_fields", TRUE>>,
        <<"insert_proportion", F64(5)>>,
        <<"read_proportion", F64(95)>>,
        <<"scan_proportion", F64(0)>>,
        <<"update_proportion", F64(0)>>,
        <<"request_distribution", "Uniform">> >>))

d(record_count, operation_count) ==
    build(Setters(WorkloadBuilderDefault, <<
        <<"record_count", record_count>>,
        <<"operation_count", operation_count>>,
        <<"read_all_fields", TRUE>>,
        <<"insert_proportion", F64(5)>>,
        <<"read_proportion", F64(95)>>,
        <<"scan_proportion", F64(0)>>,
        <<"update_proportion", F64(0)>>,
        <<"request_distribution", "Latest">> >>))

e(record_count, operation_count) ==
    build(Setters(WorkloadBuilderDefault, <<
        <<"record_count", record_count>>,
        <<"operation_count", operation_count>>,
        <<"read_all_fields", TRUE>>,
        <<"insert_proportion", F64(5)>>,
        <<"read_proportion", F64(0)>>,
        <<"scan_proportion", F64(95)>>,
        <<"update_proportion", F64(0)>>,
        <<"request_distribution", "Uniform">>,
        <<"max_scan_length", U64(1)>>,
        <<"scan_length_distribution", "Uniform">> >>))

\* (a bug: preset F without update_proportion(0.), so Default's 0.05 stays)
f_KeepsUpdate(record_count, operation_count) ==
    build(Setters(WorkloadBuilderDefault, <<
        <<"record_count", record_count>>,
        <<"operation_count", operation_count>>,
        <<"read_all_fields", TRUE>>,
        <<"insert_proportion", F64(0)>>,
        <<"read_modify_write_proportion", F64(50)>>,
        <<"read_proportion", F64(50)>>,
        <<"scan_proportion", F64(0)>>,
        <<"request_distribution", "Uniform">> >>))

f(record_count, operation_count) ==
    build(Setters(WorkloadBuilderDefault, <<
        <<"record_count", record_count>>,
        <<"operation_count", operation_count>>,
        <<"read_all_fields", TRUE>>,
        <<"insert_proportion", F64(0)>>,
        <<"read_modify_write_proportion", F64(50)>>,
        <<"read_proportion", F64(50)>>,
        <<"scan_proportion", F64(0)>>,
        <<"update_proportion", F64(0)>>,
        <<"request_distribution", "Uniform">> >>))

-----------------------------------------------------------------------------
(* The values the model draws its inputs from *)

\* record_count and operation_count handed to a preset: zero, the tests'
\* 1000, and a count above i64::MAX
CountArgs == {U64(0), U64(1000), U64High(0)}

\* the setter calls a caller of WorkloadBuilder makes
SetterCalls ==
    { <<"workload", "site">>,
      <<"record_count", U64High(7)>>,
      <<"operation_count", U64(1000)>>,
      <<"thread_count", U64(1)>>,
      <<"insert_count", U64(5)>>,
      <<"insert_start", U64(7)>>,
      <<"field_count", U64(3)>>,
      <<"field_length", U64(8)>>,
      <<"read_all_fields", FALSE>>,
      <<"write_all_fields", TRUE>>,
      <<"field_length_distribution", "Zipfian">>,
      <<"read_proportion", F64(50)>>, <<"read_proportion", NaN>>,
      <<"update_proportion", F64(50)>>,
      <<"insert_proportion", F64(5)>>,
      <<"read_modify_write_proportion", F64(50)>>,
      <<"scan_proportion", F64(95)>>,
      <<"max_scan_length", U64(1)>>,
      <<"scan_length_distribution", "Zipfian">>,
      <<"insert_order", "Ordered">>,
      <<"request_distribution", "Latest">>,
      <<"hotspot_data_fraction", F64(50)>>,
      <<"hotspot_operation_fraction", F64(50)>>,
      <<"max_execution_time", from_secs(90)>>,
      <<"max_execution_time", from_millis(1500)>>,
      <<"max_execution_time", from_millis(250)>>,
      <<"table", "t">>,
      <<"column_family", "cf">>,
      <<"measurement_type", "Raw">>,
      <<"histogram", [buckets |-> from_millis(5)]>>,
      <<"timeseries", [granularity |-> from_millis(7)]>> }

SetterChains == UNION {[1..n -> SetterCalls] : n \in 0..MaxOverrides}

EnumItems ==
    {KV(k, TStr(Lowercase(x))) : k \in {"requestdistribution"}, x \in Distribution}
    \cup {KV("fieldlengthdistribution", TStr("zipfian")),
          KV("scanlengthdistribution", TStr("zipfian"))}
    \cup {KV("insertorder", TStr(Lowercase(x))) : x \in InsertOrder}
    \cup {KV("measurementtype", TStr(Lowercase(x))) : x \in MeasurementType}
    \cup {KV("requestdistribution", TStr("bogus")),
          KV("requestdistribution", TStr("Uniform")),
          KV("insertorder", TStr("HASHED")),
          KV("measurementtype", TStr("Raw")),
          KV("fieldlengthdistribution", TStr("hashed")),
          KV("scanlengthdistribution", TStr("bogus")),
          KV("requestdistribution", TInt(1))}

\* the lines a hand-written document is made of
DocItems ==
    EnumItems \cup
    { KV("workload", TStr("site")),
      KV("recordcount", TInt(1000)), KV("recordcount", TInt(-1)),
      KV("recordcount", TIntTooBig(U64High(0))),
      KV("operationcount", TInt(1000)),
      KV("threadcount", TInt(1)),
      KV("insertcount", TInt(5)),
      KV("insertstart", TInt(7)),
      KV("fieldcount", TInt(3)),
      KV("fieldlength", TInt(8)),
      KV("readallfields", TBool(FALSE)), KV("readallfields", TStr("no")),
      KV("writeallfields", TBool(TRUE)),
      KV("readproportion", TFloat(F64(50))), KV("readproportion", TInt(1)),
      KV("readproportion", TFloat(NaN)), KV("readproportion", TStr("half")),
      KV("updateproportion", TFloat(F64(50))),
      KV("insertproportion", TFloat(F64(5))),
      KV("readmodifywriteproportion", TFloat(F64(50))),
      KV("scanproportion", TFloat(F64(95))),
      KV("maxscanlength", TInt(1)),
      KV("readcount", TFloat(F64(50))),
      KV("hotspotopnfraction", TFloat(F64(50))),
      KV("maxexecutiontime", TInt(90)), KV("maxexecutiontime", TFloat(F64(150))),
      KV("table", TStr("t")),
      KV("columnfamily", TStr("cf")),
      Header("histogram"), Header("timeseries"), Header("notes"),
      KV("buckets", TInt(5)), KV("granularity", TInt(7)),
      \* keys that name no field: an annotation, and a Rust field name
      KV("comment", TStr("x")), KV("record_count", TInt(5)),
      NotToml }

\* tests::DEFAULT_CONFIG_STRING
DEFAULT_CONFIG_STRING == <<
    KV("workload", TStr("core")),
    KV("recordcount", TInt(1000000)),
    KV("operationcount", TInt(3000000)),
    KV("threadcount", TInt(500)),
    KV("insertcount", TInt(0)),
    KV("insertstart", TInt(0)),
    KV("fieldcount", TInt(10)),
    KV("fieldlength", TInt(100)),
    KV("readallfields", TBool(TRUE)),
    KV("writeallfields", TBool(FALSE)),
    KV("fieldlengthdistribution", TStr("constant")),
    KV("readproportion", TFloat(F64(95))),
    KV("updateproportion", TFloat(F64(5))),
    KV("insertproportion", TFloat(F64(0))),
    KV("readmodifywriteproportion", TFloat(F64(0))),
    KV("scanproportion", TFloat(F64(0))),
    KV("maxscanlength", TInt(1000)),
    KV("scanlengthdistribution", TStr("uniform")),
    KV("insertorder", TStr("hashed")),
    KV("requestdistribution", TStr("zipfian")),
    KV("readcount", TFloat(F64(20))),
    KV("hotspotopnfraction", TFloat(F64(80))),
    KV("maxexecutiontime", TInt(0)),
    KV("table", TStr("usertable")),
    KV("columnfamily", TStr("")),
    KV("measurementtype", TStr("histogram")),
    Header("histogram"),
    KV("buckets", TInt(1000)),
    Header("timeseries"),
    KV("granularity", TInt(1000)) >>

\* the documents handed to from_toml_str
Docs == UNION {[1..n -> DocItems] : n \in 0..MaxDocItems} \cup {DEFAULT_CONFIG_STRING}

\* The reference document of preset A (workloads/workloada.toml, read by
\* tests::workloada; the file itself is not part of the sources).
WorkloadADoc == <<
    KV("recordcount", TInt(1000)),
    KV("operationcount", TInt(1000)),
    KV("readproportion", TFloat(F64(50))),
    KV("updateproportion", TFloat(F64(50))),
    KV("requestdistribution", TStr("uniform")) >>

\* the files a path may name; any other path cannot be read
Files == [x \in {"workloads/workloada.toml"} |-> WorkloadADoc]
Paths == {"workloads/workloada.toml", "workloads/missing.toml"}

\* Workload::from_toml_file: from_toml_str(&fs::read_to_string(path).unwrap())
from_toml_file(path) ==
    IF path \in DOMAIN Files THEN from_toml_str(Files[path])
    ELSE [outcome |-> "panic", val |-> WorkloadDefault, err |-> "IoError"]

-----------------------------------------------------------------------------
(* The program: one value is constructed, serialized and parsed back.      *)
(*   pc       "start", "built", "serialized", "reparsed"; "panicked" when  *)
(*            the constructor panicked, "ser_failed" when to_string        *)
(*            returned an error, "reparse_panicked" when parsing the       *)
(*            serialized text panicked                                     *)
(*   op       the constructor called; args, doc: what it was given         *)
(*   w        the value it returned; outcome: "value" or "panic"           *)
(*   err      the error inside the last panic                              *)
(*   text     toml::to_string(&w); w2: from_toml_str(text)                 *)

Init ==
    /\ pc = "start"
    /\ op = "none"
    /\ args = <<>>
    /\ doc = <<>>
    /\ w = WorkloadDefault
    /\ outcome = "none"
    /\ err = "none"
    /\ text = <<>>
    /\ w2 = WorkloadDefault

Constructed(name, given, x) ==
    /\ pc' = "built"
    /\ op' = name
    /\ args' = given
    /\ w' = x
    /\ outcome' = "value"
    /\ UNCHANGED <<doc, err, text, w2>>

Default ==
    /\ pc = "start"
    /\ Constructed("default", <<>>, WorkloadDefault)

Build ==
    /\ pc = "start"
    /\ \E calls \in SetterChains :
          Constructed("build", calls, build(Setters(WorkloadBuilderDefault, calls)))

PresetA ==
    /\ pc = "start"
    /\ \E rc \in CountArgs, oc \in CountArgs : Constructed("a", <<rc, oc>>, a(rc, oc))

PresetB ==
    /\ pc = "start"
    /\ \E rc \in CountArgs, oc \in CountArgs : Constructed("b", <<rc, oc>>, b(rc, oc))

PresetC ==
    /\ pc = "start"
    /\ \E rc \in CountArgs, oc \in CountArgs : Constructed("c", <<rc, oc>>, c(rc, oc))

PresetD ==
    /\ pc = "start"
    /\ \E rc \in CountArgs, oc \in CountArgs : Constructed("d", <<rc, oc>>, d(rc, oc))

PresetE ==
    /\ pc = "start"
    /\ \E rc \in CountArgs, oc \in CountArgs : Constructed("e", <<rc, oc>>, e(rc, oc))

PresetF ==
    /\ pc = "start"
    /\ \E rc \in CountArgs, oc \in CountArgs : Constructed("f", <<rc, oc>>, f(rc, oc))

Parsed(name, given, items, r) ==
    /\ pc' = IF r.outcome = "value" THEN "built" ELSE "panicked"
    /\ op' = name
    /\ args' = given
    /\ doc' = items
    /\ w' = r.val
    /\ outcome' = r.outcome
    /\ err' = r.err
    /\ UNCHANGED <<text, w2>>

FromTomlStr ==
    /\ pc = "start"
    /\ \E items \in Docs : Parsed("from_toml_str", <<>>, items, from_toml_str(items))

FromTomlFile ==
    /\ pc = "start"
    /\ \E path \in Paths :
          Parsed("from_toml_file", <<path>>,
                 IF path \in DOMAIN Files THEN Files[path] ELSE <<>>,
                 from_toml_file(path))

Serialize ==
    /\ pc = "built"
    /\ \E r \in to_string(w) :
          /\ pc' = IF r.ok THEN "serialized" ELSE "ser_failed"
          /\ text' = r.items
    /\ UNCHANGED <<op, args, doc, w, outcome, err, w2>>

Reparse ==
    /\ pc = "serialized"
    /\ LET r == from_toml_str(text)
       IN /\ pc' = IF r.outcome = "value" THEN "reparsed" ELSE "reparse_panicked"
          /\ w2' = r.val
          /\ err' = r.err
    /\ UNCHANGED <<op, args, doc, w, outcome, text>>

Next ==
    \/ Default
    \/ Build
    \/ PresetA
    \/ PresetB
    \/ PresetC
    \/ PresetD
    \/ PresetE
    \/ PresetF
    \/ FromTomlStr
    \/ FromTomlFile
    \/ Serialize
    \/ Reparse

Spec == Init /\ [][Next]_vars
-----------------------------------------------------------------------------
(* What the properties below say of documents, stated without the parser *)

ParseOps == {"from_toml_str", "from_toml_file"}
Presets == {"a", "b", "c", "d", "e", "f"}
Proportions == {"read_proportion", "update_proportion", "insert_proportion",
                "read_modify_write_proportion", "scan_proportion"}

\* the wire name of each variant, as the specification lists them
WireName == [x \in Distribution \cup InsertOrder \cup MeasurementType |->
    CASE x = "Constant" -> "constant" [] x = "Uniform" -> "uniform"
      [] x = "Zipfian" -> "zipfian" [] x = "Latest" -> "latest"
      [] x = "Hashed" -> "hashed" [] x = "Ordered" -> "ordered"
      [] x = "Histogram" -> "histogram" [] x = "Timeseries" -> "timeseries"
      [] x = "Raw" -> "raw"]

\* the index of the first table header of a document (past its end when none)
FirstHeader(items) ==
    IF \E j \in 1..Len(items) : IsHeader(items[j])
    THEN CHOOSE j \in 1..Len(items) :
            IsHeader(items[j]) /\ \A i \in 1..(j - 1) : ~IsHeader(items[i])
    ELSE Len(items) + 1

\* a TOML value a field of this type takes: its floats are numbers
ValidValue(ty, v) ==
    CASE ty = "String" -> v.t = "string"
      [] ty = "u64" -> v.t = "integer" /\ v.i >= 0
      [] ty = "bool" -> v.t = "boolean"
      [] ty = "f64" -> (v.t = "float" /\ ~v.x.nan) \/ v.t = "integer"
      [] IsEnum(ty) -> v.t = "string" /\ \E x \in Variants(ty) : WireName[x] = v.s
      [] ty = "DurationSeconds" -> v.t = "integer" /\ v.i >= 0
      [] IsSection(ty) -> FALSE

\* the Rust value x is the one the TOML value v stands for
Denotes(ty, v, x) ==
    CASE ty = "String" -> x = v.s
      [] ty = "u64" -> ~x.msb /\ x.low = v.i
      [] ty = "bool" -> x = v.b
      [] ty = "f64" -> IF v.t = "float" THEN x = v.x ELSE ~x.nan /\ x.c = 100 * v.i
      [] IsEnum(ty) -> WireName[x] = v.s
      [] ty = "DurationSeconds" -> x.secs = v.i /\ x.nanos = 0

\* the duration is v whole milliseconds
DenotesMillis(v, x) == x.secs * 1000 + x.nanos \div 1000000 = v.i /\ x.nanos % 1000000 = 0

TopKeyFields == {i \in FieldIdx : ~IsSection(WorkloadFields[i].ty)}
SectionFields == {i \in FieldIdx : IsSection(WorkloadFields[i].ty)}

\* A partial document: field keys, each at most once and with a valid
\* value, then the histogram and timeseries sections, each absent or
\* there with its one key; nothing else.
ValidPartialDoc(items) ==
    LET h1 == FirstHeader(items)
    IN /\ \A j \in 1..Len(items) : IsKV(items[j]) \/ IsHeader(items[j])
       /\ \A j \in 1..(h1 - 1) :
             /\ \E i \in TopKeyFields :
                   /\ WorkloadFields[i].key = items[j].k
                   /\ ValidValue(WorkloadFields[i].ty, items[j].v)
             /\ \A i \in 1..(h1 - 1) : i # j => items[i].k # items[j].k
       /\ \A j \in h1..Len(items) :
             IF IsHeader(items[j])
             THEN /\ \E i \in SectionFields : WorkloadFields[i].key = items[j].h
                  /\ \A i \in h1..Len(items) :
                        (i # j /\ IsHeader(items[i])) => items[i].h # items[j].h
                  /\ j + 1 <= Len(items)
                  /\ IsKV(items[j + 1])
                  /\ \E i \in SectionFields :
                        /\ WorkloadFields[i].key = items[j].h
                        /\ items[j + 1].k = SectionField(WorkloadFields[i].ty)
                  /\ items[j + 1].v.t = "integer" /\ items[j + 1].v.i >= 0
             ELSE IsHeader(items[j - 1])

\* the value a partial document gives for a top-level key, if it has the key
HasTop(items, key) ==
    \E j \in 1..(FirstHeader(items) - 1) : IsKV(items[j]) /\ items[j].k = key
TopValue(items, key) ==
    items[CHOOSE j \in 1..(FirstHeader(items) - 1) : IsKV(items[j]) /\ items[j].k = key].v
HasSection(items, key) ==
    \E j \in 1..Len(items) : IsHeader(items[j]) /\ items[j].h = key
SectionValue(items, key) ==
    items[(CHOOSE j \in 1..Len(items) : IsHeader(items[j]) /\ items[j].h = key) + 1].v

-----------------------------------------------------------------------------
\* C1: serializing Workload::default() gives exactly the canonical document
\* DEFAULT_CONFIG_STRING (the 26 top-level keys in declaration order, then
\* [histogram] buckets = 1000 and [timeseries] granularity = 1000), and
\* parsing that document gives a value equal to Workload::default().
C1_DefaultRoundTrip ==
    /\ op = "default" => pc \notin {"ser_failed", "reparse_panicked"}
    /\ (op = "default" /\ pc \in {"serialized", "reparsed"}) => text = DEFAULT_CONFIG_STRING
    /\ (op = "default" /\ pc = "reparsed") => WorkloadEq(w2, WorkloadDefault)
    /\ (op = "from_toml_str" /\ doc = DEFAULT_CONFIG_STRING) =>
          outcome = "value" /\ WorkloadEq(w, WorkloadDefault)

C1_Witness == op = "default" /\ pc = "reparsed"

PresetRow(p) ==
    CASE p = "a" -> <<50, 50, 0, 0, 0, "Uniform">>
      [] p = "b" -> <<95, 5, 0, 0, 0, "Uniform">>
      [] p = "c" -> <<100, 0, 0, 0, 0, "Uniform">>
      [] p = "d" -> <<95, 0, 5, 0, 0, "Latest">>
      [] p = "e" -> <<0, 0, 5, 0, 95, "Uniform">>
      [] p = "f" -> <<50, 0, 0, 50, 0, "Uniform">>

\* what a preset is to return: Default with the counts, the row, and
\* read_all_fields; preset e also max_scan_length 1, scan lengths Uniform
PresetValue(p, rc, oc) ==
    LET row == PresetRow(p)
        v == [WorkloadDefault EXCEPT
                !.record_count = rc,
                !.operation_count = oc,
                !.read_proportion = [nan |-> FALSE, c |-> row[1]],
                !.update_proportion = [nan |-> FALSE, c |-> row[2]],
                !.insert_proportion = [nan |-> FALSE, c |-> row[3]],
                !.read_modify_write_proportion = [nan |-> FALSE, c |-> row[4]],
                !.scan_proportion = [nan |-> FALSE, c |-> row[5]],
                !.request_distribution = row[6],
                !.read_all_fields = TRUE]
    IN IF p = "e"
       THEN [v EXCEPT !.max_scan_length = [msb |-> FALSE, low |-> 1],
                      !.scan_length_distribution = "Uniform"]
       ELSE v

\* C3: for every record_count and operation_count (zero included) each
\* preset returns, without failing, Default with the two counts, its row of
\* the table and read_all_fields = true, and nothing else changed; and
\* a(1000, 1000) equals what parsing preset A's reference document gives.
C3_PresetFactories ==
    /\ op \in Presets =>
          /\ outcome = "value"
          /\ \A n \in FieldNames : w[n] = PresetValue(op, args[1], args[2])[n]
    /\ (op = "from_toml_file" /\ args = <<"workloads/workloada.toml">>) =>
          /\ outcome = "value"
          /\ WorkloadEq(w, a(U64(1000), U64(1000)))

C3_Witness == op = "e" /\ pc = "built" /\ args = <<U64(0), U64High(0)>>

\* C4: when a parse is given a document that is not TOML, a value that
\* does not fit its field's type or an unknown variant name, or a path that
\* cannot be read, it returns a typed error to its caller and does not panic.
C4_ParseFailuresAreResults ==
    (op \in ParseOps /\ pc \in {"built", "panicked"} /\ err # "none") =>
        outcome = "error" /\ pc # "panicked"

\* the fields of a value all have a TOML form that reads back as written:
\* counts within i64, floats that are numbers, a whole number of seconds,
\* whole numbers of milliseconds
Representable(x) ==
    /\ \A i \in FieldIdx :
          /\ WorkloadFields[i].ty = "u64" => ~x[WorkloadFields[i].name].msb
          /\ WorkloadFields[i].ty = "f64" => ~x[WorkloadFields[i].name].nan
    /\ x.max_execution_time.nanos = 0
    /\ x.histogram.buckets.nanos % 1000000 = 0
    /\ x.timeseries.granularity.nanos % 1000000 = 0

\* the value one more setter call gives, for a value the builder made
OneMoreSetter(call) == build(Setters(WorkloadBuilderDefault, Append(args, call)))
FromBuilder == op \in {"default", "build"} /\ Len(args) < MaxOverrides

UnknownTop(items) ==
    {j \in 1..(FirstHeader(items) - 1) :
        IsKV(items[j]) /\ ~\E i \in FieldIdx : WorkloadFields[i].key = items[j].k}
\* the document without them
RECURSIVE Without(_, _, _)
Without(items, drop, j) ==
    IF j > Len(items) THEN <<>>
    ELSE (IF j \in drop THEN <<>> ELSE <<items[j]>>) \o Without(items, drop, j + 1)
StripUnknown(items) == Without(items, UnknownTop(items), 1)

NoNaN(x) == \A i \in FieldIdx : WorkloadFields[i].ty = "f64" => ~x[WorkloadFields[i].name].nan

\* C7: when a document that parses (its floats numbers) is extended with
\* a set of top-level keys that are not field keys of Workload, parsing the
\* extended document succeeds and gives a value equal to the one the
\* document gives.
C7_UnknownKeysIgnored ==
    (/\ op = "from_toml_str"
     /\ UnknownTop(doc) # {}
     /\ \A i \in UnknownTop(doc), j \in UnknownTop(doc) : i # j => doc[i].k # doc[j].k) =>
        LET r == from_toml_str(StripUnknown(doc))
        IN (r.outcome = "value" /\ NoNaN(r.val)) =>
              outcome = "value" /\ WorkloadEq(w, r.val)

C7_Witness ==
    /\ op = "from_toml_str" /\ pc = "built"
    /\ doc = <<KV("record_count", TInt(5)), KV("recordcount", TInt(1000))>>

\* C8: for a partial document with valid values, serializing the parsed
\* value and parsing that text gives a value equal to the parsed one.
C8_PartialMergeIdempotent ==
    (op = "from_toml_str" /\ ValidPartialDoc(doc)) =>
        /\ pc \notin {"panicked", "ser_failed", "reparse_panicked"}
        /\ pc = "reparsed" => WorkloadEq(w2, w)

C8_Witness ==
    /\ op = "from_toml_str" /\ pc = "reparsed" /\ ValidPartialDoc(doc)
    /\ HasTop(doc, "maxexecutiontime") /\ HasTop(doc, "readproportion")

\* C9: in Default and in every preset's result, for every record_count and
\* operation_count, each of the five proportions is in [0.0, 1.0] and they
\* sum to exactly 1.0.
C9_OperationMix ==
    (op \in Presets \cup {"default"}) =>
        /\ \A n \in Proportions : ~w[n].nan /\ 0 <= w[n].c /\ w[n].c <= 100
        /\ w.read_proportion.c + w.update_proportion.c + w.insert_proportion.c
              + w.read_modify_write_proportion.c + w.scan_proportion.c = 100

C9_Witness == op = "f" /\ pc = "built" /\ args = <<U64(1000), U64(0)>>

\* a partial document but for sections that are there without their key
SectionsWithoutKey(items) ==
    {j \in 1..Len(items) :
        /\ IsHeader(items[j])
        /\ items[j].h \in Sections
        /\ (j = Len(items) \/ IsHeader(items[j + 1]))}

\* C10: a document whose histogram section is there without the key
\* buckets (or whose timeseries section is there without granularity)
\* parses, and buckets (granularity) is the default 1000 ms, the other
\* fields being what the rest of the document makes them.
C10_SectionMergesOntoDefault ==
    (/\ op = "from_toml_str"
     /\ SectionsWithoutKey(doc) # {}
     /\ ValidPartialDoc(Without(doc, SectionsWithoutKey(doc), 1))) =>
        /\ outcome = "value"
        /\ \A j \in SectionsWithoutKey(doc) :
              /\ doc[j].h = "histogram" => w.histogram.buckets = from_millis(1000)
              /\ doc[j].h = "timeseries" => w.timeseries.granularity = from_millis(1000)
        /\ WorkloadEq(w, from_toml_str(Without(doc, SectionsWithoutKey(doc), 1)).val)
====
